---- MODULE Spec2Model ----
(***************************************************************************)
(* Model of the health_ai_agent REST handlers that read and write the      *)
(* ai_summaries and mimic_discharge_summaries tables:                      *)
(*   api/ai.py        summarize_discharge, list_recent_summaries,          *)
(*                    delete_patient_summaries                             *)
(*   api/patients.py  create_patient, delete_patient_and_summaries         *)
(* Every request runs in its own AsyncSession (services/database.py        *)
(* get_db).  Each awaited store statement is one atomic step against the   *)
(* committed rows (PostgreSQL READ COMMITTED): requests interleave between *)
(* their statements.  Text bodies are represented by their length.         *)
(* Requests in flight form a bag: two requests with the same parameters at *)
(* the same statement are two members.  A store write (INSERT, DELETE,     *)
(* commit, refresh) may raise; a store read returns.  created_at ties are  *)
(* possible: the clock may stand still between two inserts.  The response  *)
(* of a request is visible in `last` in the state its final step reaches.  *)
(* PromptSpec applies the construction of the chat messages to narratives  *)
(* given character by character; the store plays no part in it.           *)
(* FairSpec adds that a request in flight takes its next step: every       *)
(* awaited store or generation call returns or raises.                     *)
(***************************************************************************)
EXTENDS Integers, Sequences, FiniteSets, Bags, TLC

\* ---------------------------------------------------------------- bounds
MaxInFlight == 2
MaxRequests == 3
MaxClock == 2

\* ------------------------------------------------------------- constants
PromptChars == 4000
LimitMin == 1
LimitMax == 50

\* ---------------------------------------------------------------- inputs
HadmIds == {170490, 999999}
TextLengths == {100, 5000}
GenTexts == {"summary"}
GenFailures == {"raise", "malformed"}
LimitInputs == {0, 1, 2, 50, 51}
Alphabet == {"a", "b", "c", "d"}
NarrativeLengths == {0, 1, 2, 3999, 4000, 4001, 4002, 5000}

NoPatient == -1
NoneText == "None"

VARIABLES
    patients,      \* mimic_discharge_summaries: HADM_ID -> len(TEXT), or NoPatient
    summaries,     \* ai_summaries: the committed rows
    nextId,        \* ai_summaries.id sequence
    clock,         \* datetime.utcnow(), in ticks
    client,        \* ai_service.client: "None" or "InferenceClient"
    inflight,      \* bag of the requests in flight: [pc, req, loc]
    last,          \* the request that finished in the latest step: parameters, locals, response
    nstarted,      \* requests accepted so far, each with a session acquired from get_db
    released,      \* sessions closed by get_db so far
    genCalls,      \* per admission: chat_completion calls since its summaries were last deleted
    narrative,     \* PromptSpec: patient.text, a sequence of characters
    messages       \* PromptSpec: the messages handed to client.chat_completion

vars == <<patients, summaries, nextId, clock, client, inflight, last, nstarted, released,
          genCalls, narrative, messages>>

store == <<patients, summaries, nextId, clock>>

prompt == <<narrative, messages>>

\* ---------------------------------------------------------------- records
NoRow == [id |-> 0, hadm_id |-> 0, summary_text |-> NoneText, original_length |-> 0, created_at |-> 0]

NoReq == [kind |-> "none", hadm_id |-> 0, body_hadm_id |-> 0, limit |-> 0, text |-> 0]

NoLoc == [patient_text |-> NoPatient, existing |-> "unset", generated |-> "unset", summary |-> NoneText,
          calls |-> 0, prompt_chars |-> 0, total_count |-> 0, pending |-> {}, new_id |-> 0]

NoResp == [status |-> 0, detail |-> "none", row |-> NoRow, reused |-> FALSE,
           items |-> <<>>, total_count |-> 0, shown_count |-> 0]

NoLast == [n |-> 0, req |-> NoReq, loc |-> NoLoc, resp |-> NoResp]

Min(a, b) == IF a <= b THEN a ELSE b

\* ------------------------------------------------------------ store reads
\* Mutant of SummariesOf: the where clause negated
SummariesOfOtherAdmissions(h) == {s \in summaries : s.hadm_id # h}

\* Mutant of SummariesOf: the where clause dropped
SummariesOfAnyAdmission(h) == summaries

\* select(AISummary).where(AISummary.hadm_id == h)
SummariesOf(h) == {s \in summaries : s.hadm_id = h}

\* Mutant of PatientLookup: the query without its where clause
PatientLookupUnfiltered(h) ==
    LET present == {k \in HadmIds : patients[k] # NoPatient}
    IN IF present = {} THEN NoPatient ELSE patients[CHOOSE k \in present : TRUE]

\* select(Patient).where(Patient.hadm_id == h) ... scalar_one_or_none()
PatientLookup(h) == patients[h]

\* Result.scalar_one_or_none() on the existing-summary query
ScalarOneOrNone(rows) ==
    IF rows = {} THEN "none"
    ELSE IF Cardinality(rows) = 1 THEN "one"
    ELSE "MultipleResultsFound"

\* AIService.get_client: raises RuntimeError when the client was never initialised
get_client == IF client = "None" THEN "RuntimeError" ELSE "client"

\* patient.text[:4000], as the number of leading characters kept
PromptPrefix(len) == Min(len, PromptChars)

\* Mutant of AISummary: original_length taken from the truncated prompt text
AISummaryTruncated(id, hadm_id, summary, text_len, now) ==
    [id |-> id, hadm_id |-> hadm_id, summary_text |-> summary,
     original_length |-> Min(text_len, PromptChars), created_at |-> now]

\* AISummary(hadm_id=patient.hadm_id, summary_text=summary, original_length=len(patient.text), ...)
\* with id from the sequence and created_at from the column default
AISummary(id, hadm_id, summary, text_len, now) ==
    [id |-> id, hadm_id |-> hadm_id, summary_text |-> summary, original_length |-> text_len, created_at |-> now]

\* ------------------------------------------------------------- responses
HTTPError(status, detail) == [NoResp EXCEPT !.status = status, !.detail = detail]

\* SummarySavedResponse for a stored row; message is set only on the reuse path
SummarySavedResponse(row, message) ==
    [NoResp EXCEPT !.status = 200, !.row = row, !.reused = message]

\* ------------------------------------------------------------- requests
One(x) == SetToBag({x})

\* A request is accepted and gets its session from get_db
Accept ==
    /\ BagCardinality(inflight) < MaxInFlight
    /\ nstarted < MaxRequests
    /\ nstarted' = nstarted + 1

\* The accepted request goes on to its second statement
Start(label, request, locals) ==
    /\ inflight' = inflight (+) One([pc |-> label, req |-> request, loc |-> locals])
    /\ last' = NoLast
    /\ released' = released

\* The accepted request ends at its first statement and get_db closes its session
Reply(request, locals, response) ==
    /\ inflight' = inflight
    /\ last' = [n |-> 1, req |-> request, loc |-> locals, resp |-> response]
    /\ released' = released + 1

\* Mutant of Goto: the request stays at the statement it is at, to run it again
GotoAgain(x, label, locals) ==
    /\ inflight' = (inflight (-) One(x)) (+) One([x EXCEPT !.loc = locals])
    /\ last' = NoLast
    /\ released' = released

\* The request x goes on to its next statement
Goto(x, label, locals) ==
    /\ inflight' = (inflight (-) One(x)) (+) One([x EXCEPT !.pc = label, !.loc = locals])
    /\ last' = NoLast
    /\ released' = released

\* Mutant of Finish: get_db without its finally clause, the session is closed only when
\* the handler returns
FinishCloseOnReturn(x, locals, response) ==
    /\ inflight' = inflight (-) One(x)
    /\ last' = [n |-> 1, req |-> x.req, loc |-> locals, resp |-> response]
    /\ released' = IF response.status = 200 THEN released + 1 ELSE released

\* The request x ends with a response or an exception and get_db closes its session in its
\* finally clause; the close that leaving `async with` repeats finds the session closed
Finish(x, locals, response) ==
    /\ inflight' = inflight (-) One(x)
    /\ last' = [n |-> 1, req |-> x.req, loc |-> locals, resp |-> response]
    /\ released' = released + 1

\* The admissions table after the one-shot load (scripts/load_data.py): the example
\* admission of the API is present, the other one is present or not yet created.
InitialPatients ==
    {f \in [HadmIds -> TextLengths \cup {NoPatient}] : f[170490] = 5000 /\ f[999999] # 5000}

Init ==
    /\ patients \in InitialPatients
    /\ summaries = {}
    /\ nextId = 1
    /\ clock = 0
    /\ client \in {"None", "InferenceClient"}
    /\ inflight = EmptyBag
    /\ last = NoLast
    /\ nstarted = 0
    /\ released = 0
    /\ genCalls = [h \in HadmIds |-> 0]
    /\ narrative = <<>>
    /\ messages = <<>>

\* ------------------------------------------------- POST /ai/summarize
\* Dependencies (get_db, get_client), then the Patient query by the query parameter.
summarize_discharge_patient ==
    /\ Accept
    /\ \E q \in HadmIds, b \in HadmIds :
        LET request == [NoReq EXCEPT !.kind = "summarize", !.hadm_id = q, !.body_hadm_id = b]
        IN IF get_client = "RuntimeError"
           THEN Reply(request, NoLoc, HTTPError(500, "Internal Server Error"))
           ELSE IF PatientLookup(q) = NoPatient
           THEN Reply(request, NoLoc, HTTPError(404, "Patient not found"))
           ELSE Start("summarize_existing", request, [NoLoc EXCEPT !.patient_text = PatientLookup(q)])
    /\ UNCHANGED <<store, client, prompt, genCalls>>

\* The existing-summary query by the request body's hadm_id.
summarize_discharge_existing(x) ==
    /\ x.pc = "summarize_existing"
    /\ LET rows == SummariesOf(x.req.body_hadm_id)
           locals == [x.loc EXCEPT !.existing = ScalarOneOrNone(rows)]
       IN IF locals.existing = "MultipleResultsFound"
          THEN Finish(x, locals, HTTPError(500, "Internal Server Error"))
          ELSE IF locals.existing = "one"
          THEN Finish(x, locals, SummarySavedResponse(CHOOSE s \in rows : TRUE, TRUE))
          ELSE Goto(x, "summarize_generate", locals)
    /\ UNCHANGED <<store, client, prompt, nstarted, genCalls>>

\* client.chat_completion(...) and response.choices[0].message.content
summarize_discharge_generate(x) ==
    /\ x.pc = "summarize_generate"
    /\ \E out \in GenTexts \cup GenFailures \cup {NoneText} :
        LET locals == [x.loc EXCEPT !.calls = @ + 1,
                                    !.prompt_chars = PromptPrefix(x.loc.patient_text),
                                    !.generated = IF out \in GenFailures THEN out ELSE "content",
                                    !.summary = IF out \in GenFailures THEN NoneText ELSE out]
        IN IF out \in GenFailures
           THEN Finish(x, locals, HTTPError(500, "AI service error"))
           ELSE Goto(x, "summarize_commit", locals)
    /\ genCalls' = [genCalls EXCEPT ![x.req.hadm_id] = @ + 1]
    /\ UNCHANGED <<store, client, prompt, nstarted>>

\* Mutant of InsertRejected: hadm_id declared without its ForeignKey
InsertRejectedNoForeignKey(summary, hadm_id, fault) ==
    \/ fault
    \/ summary = NoneText

\* Mutant of InsertRejected: summary_text declared nullable
InsertRejectedNullable(summary, hadm_id, fault) ==
    \/ fault
    \/ patients[hadm_id] = NoPatient

\* The INSERT into ai_summaries raises: the store is unreachable, summary_text is NULL
\* (nullable=False), or hadm_id references no admission (ForeignKey)
InsertRejected(summary, hadm_id, fault) ==
    \/ fault
    \/ summary = NoneText
    \/ patients[hadm_id] = NoPatient

\* db.add(new_summary); await db.commit()
summarize_discharge_commit(x) ==
    /\ x.pc = "summarize_commit"
    /\ \E fault \in BOOLEAN, now \in {clock, Min(clock + 1, MaxClock)} :
        IF InsertRejected(x.loc.summary, x.req.hadm_id, fault)
        THEN /\ Finish(x, x.loc, HTTPError(500, "Database error"))
             /\ UNCHANGED store
        ELSE /\ summaries' = summaries \cup
                    {AISummary(nextId, x.req.hadm_id, x.loc.summary, x.loc.patient_text, now)}
             /\ nextId' = nextId + 1
             /\ clock' = now
             /\ Goto(x, "summarize_refresh", [x.loc EXCEPT !.new_id = nextId])
             /\ UNCHANGED patients
    /\ UNCHANGED <<client, prompt, nstarted, genCalls>>

\* await db.refresh(new_summary), then the response
summarize_discharge_refresh(x) ==
    /\ x.pc = "summarize_refresh"
    /\ \E fault \in BOOLEAN :
        LET rows == {s \in summaries : s.id = x.loc.new_id}
        IN IF fault \/ rows = {}
           THEN Finish(x, x.loc, HTTPError(500, "Database error"))
           ELSE Finish(x, x.loc, SummarySavedResponse(CHOOSE s \in rows : TRUE, FALSE))
    /\ UNCHANGED <<store, client, prompt, nstarted, genCalls>>

\* ------------------------------------------------- GET /ai/summaries
\* Query(5, ge=1, le=50) on limit
LimitAccepted(limit) == limit >= LimitMin /\ limit <= LimitMax

\* Mutant of OrderedByCreatedAtDesc: ascending order
OrderedByCreatedAtAsc(f) ==
    \A i, j \in DOMAIN f : i < j => f[i].created_at <= f[j].created_at

\* .order_by(AISummary.created_at.desc()) on a result sequence
OrderedByCreatedAtDesc(f) ==
    \A i, j \in DOMAIN f : i < j => f[i].created_at >= f[j].created_at

\* The row sequences the store may return for
\* select(AISummary).where(summary_text IS NOT NULL).order_by(created_at DESC).limit(limit)
RecentSummaries(limit) ==
    LET rows == {s \in summaries : s.summary_text # NoneText}
        n == Cardinality(rows)
        orderings == {f \in [1..n -> rows] :
                        /\ \A i, j \in 1..n : i # j => f[i] # f[j]
                        /\ OrderedByCreatedAtDesc(f)}
    IN {SubSeq(f, 1, Min(limit, n)) : f \in orderings}

SummaryListResponse(items, total) ==
    [NoResp EXCEPT !.status = 200, !.items = items, !.total_count = total, !.shown_count = Len(items)]

\* Validation of limit, then select(func.count()).select_from(AISummary)
list_recent_summaries_count ==
    /\ Accept
    /\ \E limit \in LimitInputs :
        LET request == [NoReq EXCEPT !.kind = "list", !.limit = limit]
            total == Cardinality(summaries)
        IN IF ~LimitAccepted(limit)
           THEN Reply(request, NoLoc, HTTPError(422, "Unprocessable Entity"))
           ELSE IF total = 0
           THEN Reply(request, NoLoc, SummaryListResponse(<<>>, 0))
           ELSE Start("list_select", request, [NoLoc EXCEPT !.total_count = total])
    /\ UNCHANGED <<store, client, prompt, genCalls>>

\* The ordered, limited select and the response
list_recent_summaries_select(x) ==
    /\ x.pc = "list_select"
    /\ \E items \in RecentSummaries(x.req.limit) :
        Finish(x, x.loc, SummaryListResponse(items, x.loc.total_count))
    /\ UNCHANGED <<store, client, prompt, nstarted, genCalls>>

\* ------------------------------------- DELETE /ai/summaries/patient/{hadm_id}
\* Mutant of NoSummariesFound: the emptiness test on the whole table
NoSummariesFoundAnywhere(rows) == summaries = {}

\* if not existing_summaries
NoSummariesFound(rows) == rows = {}

\* select(AISummary).where(AISummary.hadm_id == hadm_id)
delete_patient_summaries_select ==
    /\ Accept
    /\ \E h \in HadmIds :
        LET request == [NoReq EXCEPT !.kind = "delete_summaries", !.hadm_id = h]
        IN IF NoSummariesFound(SummariesOf(h))
           THEN Reply(request, NoLoc, HTTPError(404, "No summaries found"))
           ELSE Start("delete_summaries_commit", request, NoLoc)
    /\ UNCHANGED <<store, client, prompt, genCalls>>

\* delete(AISummary).where(AISummary.hadm_id == hadm_id); await db.commit()
delete_patient_summaries_commit(x) ==
    /\ x.pc = "delete_summaries_commit"
    /\ \E fault \in BOOLEAN :
        IF fault
        THEN /\ Finish(x, x.loc, HTTPError(500, "Database error"))
             /\ UNCHANGED <<summaries, genCalls>>
        ELSE /\ summaries' = summaries \ SummariesOf(x.req.hadm_id)
             /\ genCalls' = [genCalls EXCEPT ![x.req.hadm_id] = 0]
             /\ Finish(x, x.loc, [NoResp EXCEPT !.status = 200])
    /\ UNCHANGED <<patients, nextId, clock, client, prompt, nstarted>>

\* ------------------------------------------- DELETE /patients/{hadm_id}
\* select(Patient)
delete_patient_and_summaries_select ==
    /\ Accept
    /\ \E h \in HadmIds :
        LET request == [NoReq EXCEPT !.kind = "delete_patient", !.hadm_id = h]
        IN IF PatientLookup(h) = NoPatient
           THEN Reply(request, NoLoc, HTTPError(404, "Patient not found"))
           ELSE Start("delete_patient_count", request, [NoLoc EXCEPT !.patient_text = PatientLookup(h)])
    /\ UNCHANGED <<store, client, prompt, genCalls>>

\* select(AISummary) and summaries_count = len(summaries); the DELETE of the summaries
\* runs only if the count is positive
delete_patient_and_summaries_count(x) ==
    /\ x.pc = "delete_patient_count"
    /\ LET count == Cardinality(SummariesOf(x.req.hadm_id))
       IN Goto(x, IF count > 0 THEN "delete_patient_summaries" ELSE "delete_patient_commit",
               [x.loc EXCEPT !.total_count = count])
    /\ UNCHANGED <<store, client, prompt, nstarted, genCalls>>

\* delete(AISummary).where(AISummary.hadm_id == hadm_id), uncommitted until the commit
delete_patient_and_summaries_delete(x) ==
    /\ x.pc = "delete_patient_summaries"
    /\ Goto(x, "delete_patient_commit",
            [x.loc EXCEPT !.pending = {s.id : s \in SummariesOf(x.req.hadm_id)}])
    /\ UNCHANGED <<store, client, prompt, nstarted, genCalls>>

\* await db.delete(patient); await db.commit(): the foreign key rejects the DELETE of the
\* admission while a committed summary this session did not delete still references it
delete_patient_and_summaries_commit(x) ==
    /\ x.pc = "delete_patient_commit"
    /\ \E fault \in BOOLEAN :
        LET h == x.req.hadm_id
            referencing == {s \in SummariesOf(h) : s.id \notin x.loc.pending}
        IN IF fault \/ (patients[h] # NoPatient /\ referencing # {})
           THEN /\ Finish(x, x.loc, HTTPError(500, "Database error"))
                /\ UNCHANGED <<patients, summaries, genCalls>>
           ELSE /\ summaries' = {s \in summaries : s.id \notin x.loc.pending}
                /\ patients' = [patients EXCEPT ![h] = NoPatient]
                /\ genCalls' = [genCalls EXCEPT ![h] = 0]
                /\ Finish(x, x.loc, [NoResp EXCEPT !.status = 200])
    /\ UNCHANGED <<nextId, clock, client, prompt, nstarted>>

\* --------------------------------------------------- POST /patients/
\* The existence check, then db.add(new_patient) and the commit
create_patient ==
    /\ Accept
    /\ \E h \in HadmIds, text \in TextLengths, fault \in BOOLEAN :
        LET request == [NoReq EXCEPT !.kind = "create_patient", !.hadm_id = h, !.text = text]
        IN IF PatientLookup(h) # NoPatient
           THEN /\ Reply(request, NoLoc, HTTPError(409, "already exists"))
                /\ UNCHANGED patients
           ELSE IF fault
           THEN /\ Reply(request, NoLoc, HTTPError(500, "Database error"))
                /\ UNCHANGED patients
           ELSE /\ patients' = [patients EXCEPT ![h] = text]
                /\ Reply(request, NoLoc, [NoResp EXCEPT !.status = 200])
    /\ UNCHANGED <<summaries, nextId, clock, client, prompt, genCalls>>

Next ==
    \/ summarize_discharge_patient
    \/ \E x \in BagToSet(inflight) : summarize_discharge_existing(x)
    \/ \E x \in BagToSet(inflight) : summarize_discharge_generate(x)
    \/ \E x \in BagToSet(inflight) : summarize_discharge_commit(x)
    \/ \E x \in BagToSet(inflight) : summarize_discharge_refresh(x)
    \/ list_recent_summaries_count
    \/ \E x \in BagToSet(inflight) : list_recent_summaries_select(x)
    \/ delete_patient_summaries_select
    \/ \E x \in BagToSet(inflight) : delete_patient_summaries_commit(x)
    \/ delete_patient_and_summaries_select
    \/ \E x \in BagToSet(inflight) : delete_patient_and_summaries_count(x)
    \/ \E x \in BagToSet(inflight) : delete_patient_and_summaries_delete(x)
    \/ \E x \in BagToSet(inflight) : delete_patient_and_summaries_commit(x)
    \/ create_patient

Spec == Init /\ [][Next]_vars

\* Every awaited store call and the generation call return or raise, and the event loop
\* resumes the handler that awaits them: a request in flight takes its next step.
Fairness ==
    /\ WF_vars(\E x \in BagToSet(inflight) : summarize_discharge_existing(x))
    /\ WF_vars(\E x \in BagToSet(inflight) : summarize_discharge_generate(x))
    /\ WF_vars(\E x \in BagToSet(inflight) : summarize_discharge_commit(x))
    /\ WF_vars(\E x \in BagToSet(inflight) : summarize_discharge_refresh(x))
    /\ WF_vars(\E x \in BagToSet(inflight) : list_recent_summaries_select(x))
    /\ WF_vars(\E x \in BagToSet(inflight) : delete_patient_summaries_commit(x))
    /\ WF_vars(\E x \in BagToSet(inflight) : delete_patient_and_summaries_count(x))
    /\ WF_vars(\E x \in BagToSet(inflight) : delete_patient_and_summaries_delete(x))
    /\ WF_vars(\E x \in BagToSet(inflight) : delete_patient_and_summaries_commit(x))

FairSpec == Init /\ [][Next]_vars /\ Fairness

\* ------------------------------------------- the chat messages, in full
\* The system message of the prompt
SystemPreamble ==
    <<"You are a helpful, respectful and honest medical assistant. You are a second version of Med42 developed by the AI team at M42. ",
      "Always answer as helpfully as possible, while being safe. ",
      "Your answers should not include any harmful, unethical, racist, sexist, toxic, dangerous, or illegal content. ",
      "Please ensure that your responses are socially unbiased and positive in nature. If a question does not make any sense, or is not factually coherent, explain why instead of answering something not correct. ",
      "If you don't know the answer to a question, please don't share false information.">>

\* The literal part of the user message
UserInstruction == <<"Summarize this discharge summary concisely:", "\n", "\n">>

\* A narrative of n characters: c up to position PromptChars, d beyond it
Narrative(n, c, d) == [i \in 1..n |-> IF i <= PromptChars THEN c ELSE d]

Narratives == {Narrative(n, c, d) : n \in NarrativeLengths, c \in Alphabet, d \in Alphabet}

\* Mutant of Slice: the last stop characters, text[-stop:]
SliceTail(text, stop) == SubSeq(text, Len(text) - Min(stop, Len(text)) + 1, Len(text))

\* text[:stop] for stop >= 0
Slice(text, stop) == SubSeq(text, 1, Min(stop, Len(text)))

\* messages = [{"role": "system", ...}, {"role": "user", "content": f"...{patient.text[:4000]}"}]
Messages(text) ==
    <<[role |-> "system", content |-> SystemPreamble],
      [role |-> "user", content |-> UserInstruction \o Slice(text, PromptChars)]>>

PromptInit ==
    /\ narrative \in Narratives
    /\ messages = <<>>
    /\ patients = [h \in HadmIds |-> NoPatient]
    /\ summaries = {}
    /\ nextId = 1
    /\ clock = 0
    /\ client = "InferenceClient"
    /\ inflight = EmptyBag
    /\ last = NoLast
    /\ nstarted = 0
    /\ released = 0
    /\ genCalls = [h \in HadmIds |-> 0]

\* The handler builds the messages from the narrative it read
summarize_discharge_messages ==
    /\ messages = <<>>
    /\ messages' = Messages(narrative)
    /\ UNCHANGED <<store, client, inflight, last, nstarted, released, genCalls, narrative>>

PromptNext == summarize_discharge_messages

PromptSpec == PromptInit /\ [][PromptNext]_vars
\* ======================================================================
\* Properties
\* ======================================================================
IsSummarize(l) == l.req.kind = "summarize"

\* summarize(A): the query parameter and the request body both name A
Matched(request) == request.hadm_id = request.body_hadm_id

\* The request x took the current step
Stepped(x) == CopiesIn(x, inflight') < CopiesIn(x, inflight)

\* The parameters of the request accepted in the current step
Accepted ==
    IF last' # NoLast THEN last'.req
    ELSE (CHOOSE y \in BagToSet(inflight') : CopiesIn(y, inflight') > CopiesIn(y, inflight)).req

\* C1: in every reachable state each admission identifier has at most one Summary row.
OneSummaryPerAdmission ==
    \A h \in HadmIds : Cardinality(SummariesOf(h)) <= 1

\* C2: a summarize(A) whose lookup meets at least one stored Summary of A ends with that
\* stored Summary, flagged as reused, and without a generation call.
ExistingSummaryIsReused ==
    (IsSummarize(last) /\ Matched(last.req) /\ last.loc.existing \in {"one", "MultipleResultsFound"})
        => /\ last.resp.status = 200
           /\ last.resp.reused
           /\ last.resp.row \in SummariesOf(last.req.hadm_id)
           /\ last.loc.calls = 0
\* C3 as stated: a summarize whose identifier names no admission ends with 404, calls no
\* generation and leaves the Summary set unchanged.
MissingAdmissionIs404 ==
    [][(nstarted' = nstarted + 1 /\ Accepted.kind = "summarize"
            /\ patients[Accepted.hadm_id] = NoPatient)
        => /\ last'.resp.status = 404
           /\ inflight' = inflight
           /\ summaries' = summaries
           /\ genCalls' = genCalls]_vars

\* C3 (amended): a summarize whose query-parameter identifier names no admission ends at
\* once, with 404 when the generation client is initialised and with 500 when it is not;
\* either way it calls no generation and leaves the Summary and Admission sets unchanged.
MissingAdmissionIs404WhenClientReady ==
    [][(nstarted' = nstarted + 1 /\ Accepted.kind = "summarize"
            /\ patients[Accepted.hadm_id] = NoPatient)
        => /\ last'.resp.status = (IF client = "None" THEN 500 ELSE 404)
           /\ inflight' = inflight
           /\ summaries' = summaries
           /\ patients' = patients
           /\ genCalls' = genCalls]_vars

MissingAdmissionSeen ==
    /\ IsSummarize(last)
    /\ last.resp.status = 404
    /\ patients[last.req.hadm_id] = NoPatient
    /\ Matched(last.req)

\* C4: between two deletes of an admission's summaries the generation service is called at
\* most once for that admission.
AtMostOneGenerationCall ==
    \A h \in HadmIds : genCalls[h] <= 1

\* C5: a summarize(A) that reaches its persistence step when a Summary of A is already
\* stored, and is not answered with a database error, adds no row and answers with a stored
\* Summary of A flagged as reused.
PersistenceRaceReturnsExisting ==
    [][\A x \in BagToSet(inflight) :
        (/\ x.pc = "summarize_commit"
         /\ Stepped(x)
         /\ Matched(x.req)
         /\ SummariesOf(x.req.hadm_id) # {}
         /\ last'.resp.status # 500)
        => /\ summaries' = summaries
           /\ last'.resp.status = 200
           /\ last'.resp.reused
           /\ last'.resp.row \in SummariesOf(x.req.hadm_id)]_vars
\* The generation call of the request raised, or returned no usable content
GenFailed(l) ==
    \/ l.generated \in GenFailures
    \/ l.generated = "content" /\ l.summary = NoneText

\* C6: a summarize whose generation call raises or returns malformed output ends with a
\* 500 carrying the cause, has called the generation service once, and has added no row.
GenerationFailureIsServerError ==
    [][(IsSummarize(last') /\ GenFailed(last'.loc))
        => /\ last'.resp.status = 500
           /\ last'.resp.detail \in {"AI service error", "Database error"}
           /\ last'.loc.calls = 1
           /\ last'.loc.new_id = 0
           /\ summaries' = summaries]_vars

GenerationFailureSeen ==
    /\ IsSummarize(last)
    /\ last.loc.generated \in GenFailures
    /\ last.resp.status = 500

\* C7: when a summarize found no existing Summary and generation succeeded, its commit adds
\* exactly one row, fresh, for the resolved admission, holding the generated text and the
\* full length of the narrative it read; when the refresh succeeds too, the response is
\* that row and is not flagged as reused.
NewSummaryIsStoredAndReturned ==
    [][\A x \in BagToSet(inflight) :
        /\ (x.pc = "summarize_commit" /\ Stepped(x) /\ last' = NoLast)
            => \E s \in summaries' :
                /\ s \notin summaries
                /\ \A t \in summaries : t.id # s.id
                /\ summaries' = summaries \cup {s}
                /\ s.hadm_id = x.req.hadm_id
                /\ s.summary_text = x.loc.summary
                /\ s.summary_text \in GenTexts
                /\ s.original_length = x.loc.patient_text
                /\ x.loc.existing = "none"
        /\ (x.pc = "summarize_refresh" /\ Stepped(x) /\ last'.resp.status # 500)
            => /\ last'.resp.status = 200
               /\ ~last'.resp.reused
               /\ last'.resp.row \in summaries
               /\ last'.resp.row.id = x.loc.new_id
               /\ last'.resp.row.hadm_id = x.req.hadm_id
               /\ last'.resp.row.summary_text = x.loc.summary
               /\ last'.resp.row.original_length = x.loc.patient_text
               /\ summaries' = summaries]_vars

NewSummarySeen ==
    /\ IsSummarize(last)
    /\ last.resp.status = 200
    /\ ~last.resp.reused
    /\ last.resp.row.original_length > PromptChars

\* C8: a list response holds at most limit records in non-increasing created_at order, and
\* shown_count = len(summaries) <= total_count.
ListWithinLimitAndCount ==
    (last.req.kind = "list" /\ last.resp.status = 200)
        => /\ Len(last.resp.items) <= last.req.limit
           /\ \A i, j \in DOMAIN last.resp.items :
                i < j => last.resp.items[i].created_at >= last.resp.items[j].created_at
           /\ last.resp.shown_count = Len(last.resp.items)
           /\ last.resp.shown_count <= last.resp.total_count

\* C9 as stated: a list response is ordered by created_at descending and, among equal
\* created_at, by id descending.
ListOrderedByCreatedAtThenId ==
    (last.req.kind = "list" /\ last.resp.status = 200)
        => \A i, j \in DOMAIN last.resp.items :
            i < j => \/ last.resp.items[i].created_at > last.resp.items[j].created_at
                     \/ /\ last.resp.items[i].created_at = last.resp.items[j].created_at
                        /\ last.resp.items[i].id > last.resp.items[j].id

\* C9 (amended): a list response holds distinct stored rows in non-increasing created_at
\* order, Min(limit, number of rows) of them, and no stored row left out is newer than a
\* returned one; the order among rows of equal created_at is not fixed.
ListOrderedByCreatedAt ==
    (last.req.kind = "list" /\ last.resp.status = 200 /\ last.resp.items # <<>>)
        => LET items == last.resp.items
               shown == {items[i] : i \in DOMAIN items}
           IN /\ \A i, j \in DOMAIN items : i < j => items[i].created_at >= items[j].created_at
              /\ \A i, j \in DOMAIN items : i # j => items[i] # items[j]
              /\ shown \subseteq summaries
              /\ Len(items) = Min(last.req.limit, Cardinality(summaries))
              /\ \A s \in summaries \ shown : \A t \in shown : s.created_at <= t.created_at

ListWithTieSeen ==
    /\ last.req.kind = "list"
    /\ last.resp.status = 200
    /\ Len(last.resp.items) >= 2
    /\ last.resp.items[1].created_at = last.resp.items[2].created_at
    /\ last.resp.items[1].id < last.resp.items[2].id

\* C10: a delete of the summaries of an admission that has none ends with 404 and leaves
\* the Summary set and the Admission set unchanged.
DeleteWithoutSummariesIs404 ==
    [][(nstarted' = nstarted + 1 /\ Accepted.kind = "delete_summaries"
            /\ SummariesOf(Accepted.hadm_id) = {})
        => /\ last'.resp.status = 404
           /\ inflight' = inflight
           /\ summaries' = summaries
           /\ patients' = patients]_vars

DeleteWithoutSummariesSeen ==
    /\ last.req.kind = "delete_summaries"
    /\ last.resp.status = 404
    /\ SummariesOf(last.req.hadm_id) = {}
    /\ summaries # {}

SummaryReferencesAdmission ==
    \A s \in summaries : patients[s.hadm_id] # NoPatient

\* An admission was deleted together with its Summary rows while a summarize for the same
\* admission is in flight.
AdmissionDeletedWithSummariesSeen ==
    /\ last.req.kind = "delete_patient"
    /\ last.resp.status = 200
    /\ last.loc.pending # {}
    /\ patients[last.req.hadm_id] = NoPatient
    /\ \E x \in BagToSet(inflight) : x.req.kind = "summarize" /\ x.req.hadm_id = last.req.hadm_id

\* C13: the user message of the prompt is the fixed instruction followed by exactly the
\* first min(4000, len(text)) characters of the narrative, in order, and nothing of the
\* narrative beyond position 4000; the message before it is the fixed system preamble.
PromptHoldsFirstCharacters ==
    messages # <<>> =>
        LET user == messages[2].content
            k == IF Len(narrative) < 4000 THEN Len(narrative) ELSE 4000
            body == [i \in 1..(Len(user) - Len(UserInstruction)) |-> user[Len(UserInstruction) + i]]
        IN /\ Len(messages) = 2
           /\ messages[1] = [role |-> "system", content |-> SystemPreamble]
           /\ messages[2].role = "user"
           /\ \A i \in 1..Len(UserInstruction) : user[i] = UserInstruction[i]
           /\ Len(body) = k
           /\ \A i \in 1..k : body[i] = narrative[i]

LongNarrativePromptSeen ==
    /\ messages # <<>>
    /\ Len(narrative) > PromptChars
    /\ narrative[PromptChars] # narrative[PromptChars + 1]

\* C14: when a summarize ends with a database error, no Summary row written by that call is
\* stored.
FailedWriteLeavesNoRow ==
    (IsSummarize(last) /\ last.resp.status = 500 /\ last.resp.detail = "Database error")
        => \A s \in summaries : s.id # last.loc.new_id

\* C15: every step of a summarize(A) leaves the Summary rows, the generation count and the
\* requests of every other admission as they were, and the Admission set too; it creates
\* and returns rows of A only; and its lookup decides on the rows of A alone: with none it
\* goes on to generation, with one it returns that row as reused.
SummarizeIsIndependentOfOtherAdmissions ==
    [][\A x \in BagToSet(inflight) :
        (IsSummarize(x) /\ Matched(x.req) /\ Stepped(x))
            => LET a == x.req.hadm_id
                   mine == {s \in summaries : s.hadm_id = a}
               IN /\ {s \in summaries' : s.hadm_id # a} = {s \in summaries : s.hadm_id # a}
                  /\ patients' = patients
                  /\ \A b \in HadmIds \ {a} : genCalls'[b] = genCalls[b]
                  /\ \A y \in BagToSet(inflight) :
                        y # x => CopiesIn(y, inflight') >= CopiesIn(y, inflight)
                  /\ \A s \in summaries' \ summaries : s.hadm_id = a
                  /\ last'.resp.status = 200 => last'.resp.row.hadm_id = a
                  /\ x.pc = "summarize_existing"
                        => /\ mine = {} => last' = NoLast
                           /\ Cardinality(mine) = 1
                                => last'.resp.row \in mine /\ last'.resp.reused]_vars

\* A summarize(A) created and returned its Summary while a summarize(B), B # A, has its
\* own row committed and is still in flight.
ConcurrentSummarizeSeen ==
    /\ IsSummarize(last)
    /\ Matched(last.req)
    /\ last.resp.status = 200
    /\ ~last.resp.reused
    /\ \E x \in BagToSet(inflight) :
        /\ IsSummarize(x)
        /\ Matched(x.req)
        /\ x.req.hadm_id # last.req.hadm_id
        /\ x.pc = "summarize_refresh"

\* C16: a Summary that a summarize request returns belongs to the admission resolved from
\* the query parameter, whatever the request body names.
ReturnedSummaryIsOfResolvedAdmission ==
    (IsSummarize(last) /\ last.resp.status = 200)
        => last.resp.row.hadm_id = last.req.hadm_id

\* C17: the step that ends a request, whatever its outcome, releases exactly one session,
\* no other step releases one, and the sessions held are those of the requests in flight.
SessionReleasedOnceAtExit ==
    [][/\ released' = (IF last' # NoLast THEN released + 1 ELSE released)
       /\ nstarted' - released' = BagCardinality(inflight')]_vars

\* A summarize ended with an exception raised during the store write, and no session is held.
SessionReleasedAfterWriteErrorSeen ==
    /\ IsSummarize(last)
    /\ last.resp.detail = "Database error"
    /\ inflight = EmptyBag
    /\ released = nstarted
    /\ released > 1

\* The position of a statement of summarize_discharge in the handler
PcRank(pc) ==
    CASE pc = "summarize_existing" -> 1
      [] pc = "summarize_generate" -> 2
      [] pc = "summarize_commit" -> 3
      [] pc = "summarize_refresh" -> 4
      [] OTHER -> 0

\* The four outcomes of a summarize: reused, created, not-found, server error
SummarizeOutcome(resp) ==
    \/ resp.status = 200 /\ resp.row # NoRow
    \/ resp.status = 404 /\ resp.row = NoRow
    \/ resp.status = 500 /\ resp.row = NoRow

SummarizeInFlight == \E x \in BagToSet(inflight) : IsSummarize(x)

\* C18: every step of a summarize either ends it with one of the four outcomes (reused,
\* created, not-found, server error) or takes it to a later statement of the handler,
\* never to the same or an earlier one, with at most one generation call; and, when every
\* awaited call returns or raises, every started summarize ends: from some point on none
\* is in flight.
SummarizeTerminates ==
    /\ [][/\ \A x \in BagToSet(inflight) :
            (IsSummarize(x) /\ Stepped(x))
                => IF last' # NoLast
                   THEN last'.req = x.req /\ SummarizeOutcome(last'.resp)
                   ELSE \E y \in BagToSet(inflight') :
                        /\ CopiesIn(y, inflight') > CopiesIn(y, inflight)
                        /\ y.req = x.req
                        /\ PcRank(y.pc) > PcRank(x.pc)
                        /\ y.loc.calls <= 1
          /\ (nstarted' = nstarted + 1 /\ Accepted.kind = "summarize")
                => IF last' # NoLast
                   THEN SummarizeOutcome(last'.resp)
                   ELSE \A y \in BagToSet(inflight') :
                        CopiesIn(y, inflight') > CopiesIn(y, inflight) => PcRank(y.pc) = 1]_vars
    /\ <>[](~SummarizeInFlight)

\* A summarize ran through all its statements and ended, and nothing is in flight.
SummarizeRanToCompletionSeen ==
    /\ IsSummarize(last)
    /\ last.loc.new_id # 0
    /\ last.loc.calls = 1
    /\ last.resp.status = 200
    /\ inflight = EmptyBag
    /\ nstarted = released
====
